---------------------------- MODULE Spec2Model ----------------------------
(***************************************************************************)
(* Model of the unosmium.org static site generator (src/src/main.rs).      *)
(*                                                                         *)
(* Strings are sequences of one-character strings, so that splitting on a  *)
(* separator, segment lengths and byte-wise ordering are computed the way  *)
(* the program computes them.  Option<String> is <<>> for None and <<s>>   *)
(* for Some(s).  A path inside public/results/logos is represented by its  *)
(* file name (the directory prefix is common to all of them).              *)
(***************************************************************************)
EXTENDS Integers, Sequences, FiniteSets, TLC

VARIABLES
    \* inputs of a run: the file system, the images, git and the clock
    logo_dir,        \* file names in public/results/logos
    results_dir,     \* entry names in results
    images,          \* logo file name -> averaged pixel of the decoded image
    git,             \* [spawn_ok, log]: log maps <<dir, name>> to its commit dates, oldest first
    NOW,             \* lazy_static NOW
    \* main
    pc,              \* position in main
    panicked,        \* an expect/unwrap/index panicked: the run is aborted
    logo_entries,    \* get_logo_info: entries of the logo directory not yet read
    logo_info,       \* get_logo_info: HashMap<String, Vec<Logo>>
    result_entries,  \* get_tournament_info: entries of results not yet read
    tournaments,     \* Vec<TournamentResult>
    next_page,       \* write_result_pages: index of the next tournament
    written,         \* output artifacts written so far, in order
    \* single functions checked on their own
    stem,            \* a logo file stem handed to the stem parser
    stem_out,        \* None before the parse, Some(result) after it
    color,           \* get_theme_color: the css_colors::RGB value being darkened
    steps,           \* get_theme_color: iterations of the while loop so far
    theme_out,       \* get_theme_color: None while looping, Some(css text) returned
    given_name,      \* source_file_name given to get_logo_path_and_color / get_date_added
    resolved,        \* get_logo_path_and_color: None before, Some(result) after
    date_added       \* get_date_added: None before, Some(result) after

inputVars == <<logo_dir, results_dir, images, git, NOW>>

mainVars == <<pc, panicked, logo_entries, logo_info, result_entries, tournaments,
              next_page, written>>

stemVars == <<stem, stem_out>>

themeVars == <<color, steps, theme_out>>

callVars == <<given_name, resolved, date_added>>

vars == <<inputVars, mainVars, stemVars, themeVars, callVars>>

---------------------------------------------------------------------------
(* Characters and strings                                                  *)

\* The characters used, in ascending byte order (Rust compares str bytewise).
Ascii ==
    <<" ", "#", "(", ")", "+", ",", "-", ".",
      "0", "1", "2", "3", "4", "5", "6", "7", "8", "9", "_",
      "a", "b", "c", "d", "e", "f", "g", "h", "i", "j", "k", "l", "m",
      "n", "o", "p", "q", "r", "s", "t", "u", "v", "w", "x", "y", "z">>

CharOrd(c) == CHOOSE i \in 1..Len(Ascii) : Ascii[i] = c

DigitChars == <<"0", "1", "2", "3", "4", "5", "6", "7", "8", "9">>

IsDigit(c) == \E i \in 1..10 : DigitChars[i] = c

DigitVal(c) == (CHOOSE i \in 1..10 : DigitChars[i] = c) - 1

\* Ordering::Less = -1, Equal = 0, Greater = 1
CmpInt(a, b) == IF a < b THEN -1 ELSE IF a > b THEN 1 ELSE 0

RECURSIVE CmpStr(_, _)
CmpStr(s, t) ==
    IF s = <<>> /\ t = <<>> THEN 0
    ELSE IF s = <<>> THEN -1
    ELSE IF t = <<>> THEN 1
    ELSE IF Head(s) # Head(t) THEN CmpInt(CharOrd(Head(s)), CharOrd(Head(t)))
    ELSE CmpStr(Tail(s), Tail(t))

\* Position of the first / last occurrence of character c in s, 0 if none.
FirstIndex(s, c) ==
    IF \E i \in 1..Len(s) : s[i] = c
    THEN CHOOSE i \in 1..Len(s) : s[i] = c /\ \A j \in 1..(i - 1) : s[j] # c
    ELSE 0

LastIndex(s, c) ==
    IF \E i \in 1..Len(s) : s[i] = c
    THEN CHOOSE i \in 1..Len(s) : s[i] = c /\ \A j \in (i + 1)..Len(s) : s[j] # c
    ELSE 0

\* str::split(c): every separator delimits, so "a__b" gives "a", "", "b" and
\* the empty string gives one empty segment.
RECURSIVE Split(_, _)
Split(s, c) ==
    LET i == FirstIndex(s, c) IN
    IF i = 0 THEN <<s>>
    ELSE <<SubSeq(s, 1, i - 1)>> \o Split(SubSeq(s, i + 1, Len(s)), c)

\* str::splitn(2, c): at most two pieces, cut at the first separator.
SplitN2(s, c) ==
    LET i == FirstIndex(s, c) IN
    IF i = 0 THEN <<s>>
    ELSE <<SubSeq(s, 1, i - 1), SubSeq(s, i + 1, Len(s))>>

\* str::rsplitn(2, c): at most two pieces, cut at the last separator, the
\* piece after it first.
RSplitN2(s, c) ==
    LET i == LastIndex(s, c) IN
    IF i = 0 THEN <<s>>
    ELSE <<SubSeq(s, i + 1, Len(s)), SubSeq(s, 1, i - 1)>>

\* [&str]::join(sep)
RECURSIVE Join(_, _)
Join(segs, sep) ==
    IF segs = <<>> THEN <<>>
    ELSE IF Len(segs) = 1 THEN segs[1]
    ELSE segs[1] \o sep \o Join(Tail(segs), sep)

RECURSIVE StripZeros(_)
StripZeros(s) ==
    IF s # <<>> /\ Head(s) = "0" THEN StripZeros(Tail(s)) ELSE s

RECURSIVE DecimalValue(_, _)
DecimalValue(s, acc) ==
    IF s = <<>> THEN acc
    ELSE DecimalValue(Tail(s), 10 * acc + DigitVal(Head(s)))

\* 4294967295 = u32::MAX, as decimal text.
U32MaxText == <<"4", "2", "9", "4", "9", "6", "7", "2", "9", "5">>

\* <u32 as FromStr>::from_str: an optional '+', then one or more decimal
\* digits, and the value must fit 32 bits.  [ok |-> FALSE] is Err.
ParseU32(s) ==
    LET body == IF s # <<>> /\ Head(s) = "+" THEN Tail(s) ELSE s
        sig  == StripZeros(body)
    IN  IF body = <<>> \/ \E i \in 1..Len(body) : ~IsDigit(body[i])
        THEN [ok |-> FALSE, val |-> 0]
        ELSE IF Len(sig) > Len(U32MaxText)
                \/ (Len(sig) = Len(U32MaxText) /\ CmpStr(sig, U32MaxText) = 1)
        THEN [ok |-> FALSE, val |-> 0]
        ELSE [ok |-> TRUE, val |-> DecimalValue(sig, 0)]

---------------------------------------------------------------------------
(* Logo catalog builder: parsing of one logo file stem                     *)

NoneOpt == <<>>

Some(x) == <<x>>

\* splits[a..b] of a Rust slice (0-based, end exclusive); the caller checks
\* a <= b <= len, as the slice index does before it panics.
Slice(v, a, b) == SubSeq(v, a + 1, b)

\* The parsing part of the loop body of get_logo_info.  panic is TRUE when
\* the slice index start_index..(len - 1) has start > end.
ParseLogoStem(file_name) ==
    LET splits       == Split(file_name, "_")
        n            == Len(splits)
        first        == ParseU32(splits[1])
        minimum_year == IF first.ok THEN first.val ELSE 0
        start_index  == IF minimum_year = 0 THEN 0 ELSE 1
    IN  IF Len(splits[n]) = 1
        THEN IF start_index > n - 1
             THEN [panic |-> TRUE, minimum_year |-> minimum_year,
                   division |-> NoneOpt, tournament_name |-> <<>>]
             ELSE [panic |-> FALSE, minimum_year |-> minimum_year,
                   division |-> Some(splits[n]),
                   tournament_name |-> Join(Slice(splits, start_index, n - 1), <<"_">>)]
        ELSE [panic |-> FALSE, minimum_year |-> minimum_year,
              division |-> NoneOpt,
              tournament_name |-> Join(Slice(splits, start_index, n), <<"_">>)]

---------------------------------------------------------------------------
(* Theme color deriver                                                     *)
(*                                                                         *)
(* get_theme_color calls into the css_colors and contrast crates.  Their   *)
(* arithmetic is modelled in integers: css_colors keeps every Ratio (an    *)
(* RGB channel, HSL saturation and lightness, a percentage) as a u8 out of *)
(* 255 and a hue as whole degrees; darken() goes RGB -> HSL, subtracts the *)
(* amount from the lightness (clamped at 0) and goes back to RGB; contrast *)
(* is the WCAG ratio of relative luminances.                               *)

\* WCAG linearised sRGB channel value for each 8-bit channel, times 100000.
LinearTable ==
    <<
      0, 30, 61, 91, 121, 152, 182, 212, 243, 273, 304, 335, 368, 402, 439, 478,
      518, 561, 605, 651, 700, 750, 802, 857, 913, 972, 1033, 1096, 1161, 1229, 1298, 1370,
      1444, 1521, 1600, 1681, 1764, 1850, 1938, 2029, 2122, 2217, 2315, 2416, 2519, 2624, 2732, 2843,
      2956, 3071, 3190, 3310, 3434, 3560, 3689, 3820, 3955, 4092, 4231, 4374, 4519, 4667, 4817, 4971,
      5127, 5286, 5448, 5613, 5781, 5951, 6125, 6301, 6480, 6663, 6848, 7036, 7227, 7421, 7619, 7819,
      8022, 8228, 8438, 8650, 8866, 9084, 9306, 9531, 9759, 9990, 10224, 10462, 10702, 10946, 11193, 11444,
      11697, 11954, 12214, 12477, 12744, 13014, 13287, 13563, 13843, 14126, 14413, 14703, 14996, 15293, 15593, 15896,
      16203, 16513, 16827, 17144, 17465, 17789, 18116, 18447, 18782, 19120, 19462, 19807, 20156, 20508, 20864, 21223,
      21586, 21953, 22323, 22697, 23074, 23455, 23840, 24228, 24620, 25016, 25415, 25818, 26225, 26636, 27050, 27468,
      27889, 28315, 28744, 29177, 29614, 30054, 30499, 30947, 31399, 31855, 32314, 32778, 33245, 33716, 34191, 34670,
      35153, 35640, 36131, 36625, 37124, 37626, 38133, 38643, 39157, 39676, 40198, 40724, 41254, 41789, 42327, 42869,
      43415, 43966, 44520, 45079, 45641, 46208, 46778, 47353, 47932, 48515, 49102, 49693, 50289, 50888, 51492, 52100,
      52712, 53328, 53948, 54572, 55201, 55834, 56471, 57112, 57758, 58408, 59062, 59720, 60383, 61050, 61721, 62396,
      63076, 63760, 64448, 65141, 65837, 66539, 67244, 67954, 68669, 69387, 70110, 70838, 71569, 72306, 73046, 73791,
      74540, 75294, 76052, 76815, 77582, 78354, 79130, 79910, 80695, 81485, 82279, 83077, 83880, 84687, 85499, 86316,
      87137, 87962, 88792, 89627, 90466, 91310, 92158, 93011, 93869, 94731, 95597, 96469, 97345, 98225, 99110, 100000
    >>

Rgb(r, g, b) == [r |-> r, g |-> g, b |-> b]

\* Relative luminance, times 10^9 (weights 0.2126, 0.7152, 0.0722).
Luminance(c) ==
    2126 * LinearTable[c.r + 1] + 7152 * LinearTable[c.g + 1] + 722 * LinearTable[c.b + 1]

\* contrast(c, white) = (1.0 + 0.05) / (luminance(c) + 0.05), times 1000.
ContrastMilli(c) == (1050000 * 1000) \div ((Luminance(c) \div 1000) + 50000)

Max3(a, b, c) == IF a >= b /\ a >= c THEN a ELSE IF b >= c THEN b ELSE c

Min3(a, b, c) == IF a <= b /\ a <= c THEN a ELSE IF b <= c THEN b ELSE c

\* x / y rounded to the nearest integer, halves away from zero (f32::round),
\* for x >= 0 and y > 0.
RoundDiv(x, y) == (2 * x + y) \div (2 * y)

\* Ratio::from_percentage(p): p / 100 as a u8 out of 255.
Percent(p) == RoundDiv(255 * p, 100)

\* RGB -> HSL: hue in whole degrees, saturation and lightness out of 255.
ToHsl(c) ==
    IF c.r = c.g /\ c.g = c.b THEN [h |-> 0, s |-> 0, l |-> c.r]
    ELSE
    LET mx   == Max3(c.r, c.g, c.b)
        mn   == Min3(c.r, c.g, c.b)
        sum  == mx + mn
        d    == mx - mn
        den  == IF sum < 255 THEN sum ELSE 510 - sum
        hraw == IF mx = c.r THEN 60 * (c.g - c.b)
                ELSE IF mx = c.g THEN 120 * d + 60 * (c.b - c.r)
                ELSE 240 * d + 60 * (c.r - c.g)
        hnum == IF hraw < 0 THEN hraw + 360 * d ELSE hraw
    IN  [h |-> RoundDiv(hnum, d) % 360,
         s |-> RoundDiv(255 * d, den),
         l |-> RoundDiv(sum, 2)]

\* One channel of HSL -> RGB; t1, t2 are out of 255 * 255, deg is the
\* channel's hue offset in degrees.
HueToChannel(t1, t2, deg) ==
    LET w   == IF deg < 0 THEN deg + 360 ELSE IF deg > 360 THEN deg - 360 ELSE deg
        num == IF w < 60 THEN 60 * t2 + (t1 - t2) * w
               ELSE IF w < 180 THEN 60 * t1
               ELSE IF w < 240 THEN 60 * t2 + (t1 - t2) * (240 - w)
               ELSE 60 * t2
        v   == RoundDiv(num, 255 * 60)
    IN  IF v > 255 THEN 255 ELSE v

ToRgb(x) ==
    IF x.s = 0 THEN Rgb(x.l, x.l, x.l)
    ELSE
    LET t1 == IF 2 * x.l < 255 THEN x.l * (255 + x.s)
              ELSE 255 * x.l + 255 * x.s - x.l * x.s
        t2 == 2 * 255 * x.l - t1
    IN  Rgb(HueToChannel(t1, t2, x.h + 120),
            HueToChannel(t1, t2, x.h),
            HueToChannel(t1, t2, x.h - 120))

\* Color::darken(amount) of an RGB value.
Darken(c, amount) ==
    LET x == ToHsl(c)
        l == IF x.l > amount THEN x.l - amount ELSE 0
    IN  ToRgb([h |-> x.h, s |-> x.s, l |-> l])

RECURSIVE DecimalText(_)
DecimalText(n) ==
    IF n < 10 THEN <<DigitChars[n + 1]>>
    ELSE Append(DecimalText(n \div 10), DigitChars[(n % 10) + 1])

\* Color::to_css of an RGB value: "rgb(r, g, b)".
ToCss(c) ==
    <<"r", "g", "b", "(">> \o DecimalText(c.r) \o <<",", " ">>
    \o DecimalText(c.g) \o <<",", " ">> \o DecimalText(c.b) \o <<")">>

\* The loop condition with the AA threshold 4.5 in place of 7.0.
LoopTestAA(c) == ContrastMilli(c) < 4500

\* The while condition of get_theme_color: contrast against white < 7.0.
LoopTest(c) == ContrastMilli(c) < 7000

\* The loop body darkening by 1/255 instead of one percent.
LoopBodySlow(c) == Darken(c, 1)

\* The while body of get_theme_color.
LoopBody(c) == Darken(c, Percent(1))

\* get_theme_color from the averaged pixel on, as one function.
RECURSIVE DeriveThemeColor(_)
DeriveThemeColor(c) ==
    IF LoopTest(c) THEN DeriveThemeColor(LoopBody(c)) ELSE ToCss(c)

---------------------------------------------------------------------------
(* Logo catalog: ordering of candidates, and the resolver                  *)

\* struct Logo, fields in declaration order (which derive(Ord) follows).
Logo(division, minimum_year, path, theme_color) ==
    [division |-> division, minimum_year |-> minimum_year,
     path |-> path, theme_color |-> theme_color]

\* Option<String> ordering: None < Some(_), Some by the strings.
CmpOption(a, b) ==
    IF a = NoneOpt /\ b = NoneOpt THEN 0
    ELSE IF a = NoneOpt THEN -1
    ELSE IF b = NoneOpt THEN 1
    ELSE CmpStr(a[1], b[1])

\* The ordering with the path and theme_color fields left out of the key.
LogoCmpNoPath(a, b) ==
    LET d == CmpOption(a.division, b.division)
    IN  IF d # 0 THEN d ELSE CmpInt(a.minimum_year, b.minimum_year)

\* #[derive(Ord)] on Logo: lexicographic over the fields.
LogoCmp(a, b) ==
    LET d == CmpOption(a.division, b.division)
        y == CmpInt(a.minimum_year, b.minimum_year)
        p == CmpStr(a.path, b.path)
    IN  IF d # 0 THEN d
        ELSE IF y # 0 THEN y
        ELSE IF p # 0 THEN p
        ELSE CmpStr(a.theme_color, b.theme_color)

\* Insert x into the ascending sequence v after every element not greater
\* than it (a stable sort, as slice::sort is).
RECURSIVE InsertSorted(_, _)
InsertSorted(v, x) ==
    IF v = <<>> THEN <<x>>
    ELSE IF LogoCmp(x, Head(v)) = -1 THEN <<x>> \o v
    ELSE <<Head(v)>> \o InsertSorted(Tail(v), x)

RECURSIVE SortLogos(_)
SortLogos(v) ==
    IF v = <<>> THEN <<>>
    ELSE InsertSorted(SortLogos(SubSeq(v, 1, Len(v) - 1)), v[Len(v)])

Reverse(v) == [i \in 1..Len(v) |-> v[Len(v) + 1 - i]]

\* The sort without the reverse.
SortOnly(v) == SortLogos(v)

\* logos.sort(); logos.reverse();
SortAndReverse(v) == Reverse(SortLogos(v))

default_logo_path == <<"d", "e", "f", "a", "u", "l", "t", ".", "p", "n", "g">>

default_theme_color == <<"#", "3", "0", "3", "0", "3", "0">>

\* The closure without its minimum_year condition.
LogoMatchesAnyYear(logo, division, year) ==
    logo.division = NoneOpt \/ logo.division[1] = division

\* The closure given to find() in get_logo_path_and_color.
LogoMatches(logo, division, year) ==
    /\ (logo.division = NoneOpt \/ logo.division[1] = division)
    /\ logo.minimum_year <= year

\* Iterator::find: index of the first matching candidate, 0 for None.
FindLogo(logos, division, year) ==
    IF \E i \in 1..Len(logos) : LogoMatches(logos[i], division, year)
    THEN CHOOSE i \in 1..Len(logos) :
            /\ LogoMatches(logos[i], division, year)
            /\ \A j \in 1..(i - 1) : ~LogoMatches(logos[j], division, year)
    ELSE 0

\* The parsing with unwrap_or defaults in place of expect and indexing.
ParseResultNameLenient(source_file_str) ==
    LET year   == ParseU32(SplitN2(source_file_str, "-")[1])
        cut    == SplitN2(source_file_str, "_")
        rest   == IF Len(cut) = 2 THEN cut[2] ELSE <<>>
        splits == RSplitN2(rest, "_")
    IN  [panic |-> FALSE, year |-> IF year.ok THEN year.val ELSE 0,
         division |-> SplitN2(splits[1], ".")[1],
         tournament_name |-> IF Len(splits) = 2 THEN splits[2] ELSE <<>>]

\* The file-name parsing of get_logo_path_and_color.  panic is TRUE when the
\* year does not parse (expect) or an indexed piece does not exist.
ParseResultName(source_file_str) ==
    LET year_txt == SplitN2(source_file_str, "-")[1]
        year     == ParseU32(year_txt)
        cut      == SplitN2(source_file_str, "_")
        splits   == IF Len(cut) = 2 THEN RSplitN2(cut[2], "_") ELSE <<>>
    IN  IF ~year.ok \/ Len(cut) < 2 \/ Len(splits) < 2
        THEN [panic |-> TRUE, year |-> 0, division |-> <<>>, tournament_name |-> <<>>]
        ELSE [panic |-> FALSE, year |-> year.val,
              division |-> SplitN2(splits[1], ".")[1],
              tournament_name |-> splits[2]]

\* get_logo_path_and_color; logo_info is a function from tournament names
\* to candidate sequences (the HashMap).
GetLogoPathAndColor(source_file_name, info) ==
    LET id == ParseResultName(source_file_name) IN
    IF id.panic THEN [panic |-> TRUE, path |-> <<>>, theme_color |-> <<>>]
    ELSE IF id.tournament_name \in DOMAIN info
    THEN LET logos == info[id.tournament_name]
             i     == FindLogo(logos, id.division, id.year)
         IN  IF i # 0
             THEN [panic |-> FALSE, path |-> logos[i].path,
                   theme_color |-> logos[i].theme_color]
             ELSE [panic |-> FALSE, path |-> default_logo_path,
                   theme_color |-> default_theme_color]
    ELSE [panic |-> FALSE, path |-> default_logo_path,
          theme_color |-> default_theme_color]

\* Path::file_stem and Path::extension of a file name: split at the last
\* '.', unless there is none or the only one is the first character.
FileStem(name) ==
    LET i == LastIndex(name, ".") IN
    IF i <= 1 THEN name ELSE SubSeq(name, 1, i - 1)

Extension(name) ==
    LET i == LastIndex(name, ".") IN
    IF i <= 1 THEN NoneOpt ELSE Some(SubSeq(name, i + 1, Len(name)))

\* PathBuf::set_extension
SetExtension(name, ext) == FileStem(name) \o <<".">> \o ext

---------------------------------------------------------------------------
(* History date resolver                                                   *)

\* date!(2020 - 07 - 08); dates are written YYYYMMDD.
cutover == 20200708

ResultsPath(name) == <<"results", name>>

DataPath(name) == <<"data", name>>

\* get_date_from_git: git log --format=%ai --reverse -- path.  The parse
\* takes the first line of the output, the oldest commit; no output does
\* not parse, and the warning names the path and NOW is returned.  err is
\* the io::Error of a git that could not be run.
GetDateFromGit(g, now, path) ==
    IF path \in g.broken THEN [err |-> TRUE, date |-> 0, warned |-> FALSE]
    ELSE IF g.log[path] # <<>>
    THEN [err |-> FALSE, date |-> Head(g.log[path]), warned |-> FALSE]
    ELSE [err |-> FALSE, date |-> now, warned |-> TRUE]

\* get_date_added.  lookups lists the paths git was asked about and
\* warnings the paths the warning was printed for, in order.
GetDateAdded(g, now, source_file_name) ==
    LET p1    == ResultsPath(source_file_name)
        p2    == DataPath(source_file_name)
        first == GetDateFromGit(g, now, p1)
        again == GetDateFromGit(g, now, p2)
        w1    == IF first.warned THEN <<p1>> ELSE <<>>
        w2    == IF again.warned THEN <<p2>> ELSE <<>>
    IN  IF first.err
        THEN [err |-> TRUE, date |-> 0, lookups |-> <<p1>>, warnings |-> <<>>]
        ELSE IF first.date < cutover
        THEN IF again.err
             THEN [err |-> TRUE, date |-> 0, lookups |-> <<p1, p2>>, warnings |-> w1]
             ELSE [err |-> FALSE, date |-> again.date, lookups |-> <<p1, p2>>,
                   warnings |-> w1 \o w2]
        ELSE [err |-> FALSE, date |-> first.date, lookups |-> <<p1>>, warnings |-> w1]

---------------------------------------------------------------------------
(* Logo catalog builder                                                    *)

\* One iteration of the first loop of get_logo_info on the entry f: parse
\* the stem, derive the theme color, push the Logo onto its tournament's
\* list.  extension().unwrap() in get_theme_color panics without one.
PushLogo(info, f, imgs) ==
    LET parsed == ParseLogoStem(FileStem(f)) IN
    IF parsed.panic \/ Extension(f) = NoneOpt
    THEN [panic |-> TRUE, info |-> info]
    ELSE LET logo == Logo(parsed.division, parsed.minimum_year, f,
                          DeriveThemeColor(imgs[f]))
             k    == parsed.tournament_name
         IN  [panic |-> FALSE,
              info  |-> IF k \in DOMAIN info
                        THEN [info EXCEPT ![k] = Append(@, logo)]
                        ELSE [x \in DOMAIN info \cup {k} |->
                                 IF x = k THEN <<logo>> ELSE info[x]]]

\* The second loop of get_logo_info.
SortCatalog(info) == [k \in DOMAIN info |-> SortAndReverse(info[k])]

RECURSIVE ReadLogos(_, _, _)
ReadLogos(info, order, imgs) ==
    IF order = <<>> THEN [panic |-> FALSE, info |-> info]
    ELSE LET r == PushLogo(info, Head(order), imgs)
         IN  IF r.panic THEN r ELSE ReadLogos(r.info, Tail(order), imgs)

EmptyMap == [x \in {} |-> <<>>]

\* get_logo_info as one function of the order in which read_dir yields
\* the entries.
GetLogoInfo(order, imgs) ==
    LET r == ReadLogos(EmptyMap, order, imgs)
    IN  IF r.panic THEN r ELSE [panic |-> FALSE, info |-> SortCatalog(r.info)]

---------------------------------------------------------------------------
(* The files, images and histories the runs are drawn from                 *)

Logo_2020_regional_x_png == <<"2", "0", "2", "0", "_", "r", "e", "g", "i", "o", "n", "a", "l", "_", "x", ".", "p", "n", "g">>
Logo_2020_regional_x_b_png == <<"2", "0", "2", "0", "_", "r", "e", "g", "i", "o", "n", "a", "l", "_", "x", "_", "b", ".", "p", "n", "g">>
Logo_default_png == <<"d", "e", "f", "a", "u", "l", "t", ".", "p", "n", "g">>
Logo_t_png == <<"t", ".", "p", "n", "g">>
Logo_2021_t_png == <<"2", "0", "2", "1", "_", "t", ".", "p", "n", "g">>
Logo_2019_t_b_png == <<"2", "0", "1", "9", "_", "t", "_", "b", ".", "p", "n", "g">>
Logo_2021_t_b_png == <<"2", "0", "2", "1", "_", "t", "_", "b", ".", "p", "n", "g">>
Logo_2021_t_b_svg == <<"2", "0", "2", "1", "_", "t", "_", "b", ".", "s", "v", "g">>
Logo_5_png == <<"5", ".", "p", "n", "g">>

\* The logo files a run of main may find.
LogoUniverse ==
    {Logo_2020_regional_x_png, Logo_2020_regional_x_b_png, Logo_2021_t_png,
     Logo_2019_t_b_png, Logo_2021_t_b_png, Logo_2021_t_b_svg, Logo_5_png}

Result_2021_regional_x_b == <<"2", "0", "2", "1", "-", "0", "4", "-", "0", "1", "_", "r", "e", "g", "i", "o", "n", "a", "l", "_", "x", "_", "b", ".", "y", "a", "m", "l">>
Result_2021_regional_x_c == <<"2", "0", "2", "1", "-", "0", "4", "-", "0", "1", "_", "r", "e", "g", "i", "o", "n", "a", "l", "_", "x", "_", "c", ".", "y", "a", "m", "l">>
Result_2019_regional_x_b == <<"2", "0", "1", "9", "-", "0", "4", "-", "0", "1", "_", "r", "e", "g", "i", "o", "n", "a", "l", "_", "x", "_", "b", ".", "y", "a", "m", "l">>
Result_2020_t_b == <<"2", "0", "2", "0", "-", "0", "3", "-", "0", "2", "_", "t", "_", "b", ".", "y", "a", "m", "l">>
Result_2022_t_b == <<"2", "0", "2", "2", "-", "0", "3", "-", "0", "2", "_", "t", "_", "b", ".", "y", "a", "m", "l">>
Result_2022_t_c == <<"2", "0", "2", "2", "-", "0", "3", "-", "0", "2", "_", "t", "_", "c", ".", "y", "a", "m", "l">>
Result_2022_default_a == <<"2", "0", "2", "2", "-", "0", "3", "-", "0", "2", "_", "d", "e", "f", "a", "u", "l", "t", "_", "a", ".", "y", "a", "m", "l">>
Result_notes == <<"n", "o", "t", "e", "s", ".", "y", "a", "m", "l">>
Result_archive == <<"a", "r", "c", "h", "i", "v", "e">>

\* The entries of results a run of main may find.
ResultUniverse ==
    {Result_2021_regional_x_b, Result_2021_regional_x_c, Result_2020_t_b,
     Result_2022_t_b, Result_2022_t_c, Result_notes, Result_archive}

\* Entries of results that are directories (path.is_file() is false).
ResultSubdirs == {Result_archive}

MaxLogos == 2

MaxResults == 2

\* The averaged pixel of a decoded logo; default.png is exactly the default
\* gray, and the two 2021_t_b logos have the same color.
PixelOf(f) ==
    IF f = Logo_default_png THEN Rgb(48, 48, 48)
    ELSE IF f \in {Logo_t_png, Logo_2021_t_png} THEN Rgb(100, 110, 120)
    ELSE IF f \in {Logo_2021_t_b_png, Logo_2021_t_b_svg} THEN Rgb(0, 128, 0)
    ELSE Rgb(120, 120, 120)

ImageWorlds == {[f \in LogoUniverse |-> PixelOf(f)]}

Dates == {20190301, 20200707, 20200708, 20210601}

\* The clock of a run, which is not before the cutover date written into
\* the program.
NowTimes == {20200708, 20261102}

\* git log output for one path: nothing, one commit, or two.
Histories ==
    {<<>>} \cup {<<d>> : d \in Dates}
    \cup {<<d, e>> : d \in {20190301, 20200708}, e \in {20200707, 20210601}}

GitPaths(names) == {ResultsPath(n) : n \in names} \cup {DataPath(n) : n \in names}

\* Every path with the same history under results/ and under data/.
UniformGit(names, hr, hd, broken) ==
    [log    |-> [p \in GitPaths(names) |-> IF p[1] = "results" THEN hr ELSE hd],
     broken |-> broken]

\* The history main runs against: every result file was committed under
\* data/ and moved to results/ before the cutover date.
MainGitWorlds ==
    {UniformGit(ResultUniverse, <<20200707>>, <<20190301, 20200707>>, {})}

---------------------------------------------------------------------------
(* main                                                                    *)

\* main creating the output directory before get_tournament_info.
MainOrderMkdirFirst ==
    <<"start", "mkdir", "logos", "ingest", "pages", "events", "schools", "index", "done">>

\* The steps of main and of the functions it calls, in program order.
MainOrder ==
    <<"start", "logos", "ingest", "mkdir", "pages", "events", "schools", "index", "done">>

After(p) == MainOrder[(CHOOSE i \in 1..Len(MainOrder) : MainOrder[i] = p) + 1]

IdleMain ==
    /\ logo_dir = {}
    /\ results_dir = {}
    /\ images = EmptyMap
    /\ pc = "done"
    /\ panicked = FALSE
    /\ logo_entries = {}
    /\ logo_info = EmptyMap
    /\ result_entries = {}
    /\ tournaments = <<>>
    /\ next_page = 1
    /\ written = <<>>

IdleGit ==
    /\ git = [log |-> EmptyMap, broken |-> {}]
    /\ NOW = 20261102

IdleStem ==
    /\ stem = <<>>
    /\ stem_out = NoneOpt

IdleTheme ==
    /\ color = Rgb(0, 0, 0)
    /\ steps = 0
    /\ theme_out = NoneOpt

IdleCall ==
    /\ given_name = <<>>
    /\ resolved = NoneOpt
    /\ date_added = NoneOpt

Init ==
    /\ logo_dir \in {d \in SUBSET LogoUniverse : Cardinality(d) <= MaxLogos}
    /\ results_dir \in {d \in SUBSET ResultUniverse : Cardinality(d) <= MaxResults}
    /\ images \in ImageWorlds
    /\ git \in MainGitWorlds
    /\ NOW = 20261102
    /\ pc = "start"
    /\ panicked = FALSE
    /\ logo_entries = {}
    /\ logo_info = EmptyMap
    /\ result_entries = {}
    /\ tournaments = <<>>
    /\ next_page = 1
    /\ written = <<>>
    /\ IdleStem /\ IdleTheme /\ IdleCall

Running(p) == pc = p /\ ~panicked

\* fs::read_dir("results") in get_tournament_info and
\* fs::read_dir("public/results/logos") in get_logo_info.
ReadDirs ==
    /\ Running("start")
    /\ result_entries' = results_dir
    /\ logo_entries' = logo_dir
    /\ pc' = After(pc)
    /\ UNCHANGED <<panicked, logo_info, tournaments, next_page, written>>
    /\ UNCHANGED <<inputVars, stemVars, themeVars, callVars>>

\* One iteration of the first loop of get_logo_info; read_dir yields the
\* entries in any order.
ReadLogoEntry ==
    /\ Running("logos")
    /\ \E f \in logo_entries :
         LET r == PushLogo(logo_info, f, images) IN
         /\ panicked' = r.panic
         /\ logo_info' = r.info
         /\ logo_entries' = IF r.panic THEN logo_entries ELSE logo_entries \ {f}
    /\ UNCHANGED <<pc, result_entries, tournaments, next_page, written>>
    /\ UNCHANGED <<inputVars, stemVars, themeVars, callVars>>

\* The second loop of get_logo_info, after the last entry.
SortLogoLists ==
    /\ Running("logos")
    /\ logo_entries = {}
    /\ logo_info' = SortCatalog(logo_info)
    /\ pc' = After(pc)
    /\ UNCHANGED <<panicked, logo_entries, result_entries, tournaments, next_page, written>>
    /\ UNCHANGED <<inputVars, stemVars, themeVars, callVars>>

TournamentResult(source_file_name, date, logo) ==
    [interpreter      |-> [from_yaml_of |-> source_file_name],
     source_file_name |-> source_file_name,
     date_added       |-> date,
     logo_path        |-> logo.path,
     theme_color      |-> logo.theme_color]

\* One iteration of the loop of get_tournament_info.
IngestEntry ==
    /\ Running("ingest")
    /\ \E e \in result_entries :
         IF e \in ResultSubdirs
         THEN /\ result_entries' = result_entries \ {e}
              /\ UNCHANGED <<panicked, tournaments>>
         ELSE LET date == GetDateAdded(git, NOW, e)
                  logo == GetLogoPathAndColor(e, logo_info)
              IN  IF date.err \/ logo.panic
                  THEN /\ panicked' = TRUE
                       /\ UNCHANGED <<result_entries, tournaments>>
                  ELSE /\ tournaments' = Append(tournaments,
                                                TournamentResult(e, date.date, logo))
                       /\ result_entries' = result_entries \ {e}
                       /\ UNCHANGED panicked
    /\ UNCHANGED <<pc, logo_entries, logo_info, next_page, written>>
    /\ UNCHANGED <<inputVars, stemVars, themeVars, callVars>>

\* get_tournament_info returns.
IngestDone ==
    /\ Running("ingest")
    /\ result_entries = {}
    /\ pc' = After(pc)
    /\ UNCHANGED <<panicked, logo_entries, logo_info, result_entries, tournaments,
                   next_page, written>>
    /\ UNCHANGED <<inputVars, stemVars, themeVars, callVars>>

Artifact(kind, name, theme) == [kind |-> kind, name |-> name, color |-> theme]

Write(a) == written' = Append(written, a)

\* fs::create_dir_all("public/results")
CreateDir ==
    /\ Running("mkdir")
    /\ Write(Artifact("dir", <<>>, <<>>))
    /\ pc' = After(pc)
    /\ UNCHANGED <<panicked, logo_entries, logo_info, result_entries, tournaments, next_page>>
    /\ UNCHANGED <<inputVars, stemVars, themeVars, callVars>>

\* One iteration of the loop of write_result_pages.
WritePage ==
    /\ Running("pages")
    /\ next_page <= Len(tournaments)
    /\ LET t == tournaments[next_page]
       IN  Write(Artifact("page", SetExtension(t.source_file_name, <<"h", "t", "m", "l">>),
                          t.theme_color))
    /\ next_page' = next_page + 1
    /\ UNCHANGED <<pc, panicked, logo_entries, logo_info, result_entries, tournaments>>
    /\ UNCHANGED <<inputVars, stemVars, themeVars, callVars>>

PagesDone ==
    /\ Running("pages")
    /\ next_page > Len(tournaments)
    /\ pc' = After(pc)
    /\ UNCHANGED <<panicked, logo_entries, logo_info, result_entries, tournaments,
                   next_page, written>>
    /\ UNCHANGED <<inputVars, stemVars, themeVars, callVars>>

\* write_csv_1, write_csv_3 and write_results_index.
WriteAggregate ==
    /\ \E p \in {"events", "schools", "index"} :
         /\ Running(p)
         /\ Write(Artifact(p, <<>>, <<>>))
    /\ pc' = After(pc)
    /\ UNCHANGED <<panicked, logo_entries, logo_info, result_entries, tournaments, next_page>>
    /\ UNCHANGED <<inputVars, stemVars, themeVars, callVars>>

\* An expect or unwrap on the file system, an image, the YAML or the
\* templates fails at the step the run is at: it panics there.
IoPanic ==
    /\ ~panicked
    /\ \/ pc \in {"start", "mkdir", "events", "schools", "index"}
       \/ pc = "logos" /\ logo_entries # {}
       \/ pc = "ingest" /\ result_entries # {}
       \/ pc = "pages" /\ next_page <= Len(tournaments)
    /\ panicked' = TRUE
    /\ UNCHANGED <<pc, logo_entries, logo_info, result_entries, tournaments,
                   next_page, written>>
    /\ UNCHANGED <<inputVars, stemVars, themeVars, callVars>>

Next ==
    \/ ReadDirs
    \/ ReadLogoEntry
    \/ SortLogoLists
    \/ IngestEntry
    \/ IngestDone
    \/ CreateDir
    \/ WritePage
    \/ PagesDone
    \/ WriteAggregate
    \/ IoPanic

Spec == Init /\ [][Next]_vars

---------------------------------------------------------------------------
(* The stem parser on its own                                              *)

MaxStemLen == 4

StemChars == {"0", "1", "2", "a", "b", "_"}

RECURSIVE StringsUpTo(_, _)
StringsUpTo(chars, n) ==
    IF n = 0 THEN {<<>>}
    ELSE LET shorter == StringsUpTo(chars, n - 1)
         IN  shorter \cup {Append(s, c) : s \in shorter, c \in chars}

Stem_2019_state_tournament_a ==
    <<"2", "0", "1", "9", "_", "s", "t", "a", "t", "e", "_",
      "t", "o", "u", "r", "n", "a", "m", "e", "n", "t", "_", "a">>

Stem_state_tournament ==
    <<"s", "t", "a", "t", "e", "_", "t", "o", "u", "r", "n", "a", "m", "e", "n", "t">>

Stem_overflow ==
    <<"9", "9", "9", "9", "9", "9", "9", "9", "9", "9", "9", "_", "a", "b">>

Stem_plus ==
    <<"+", "2", "0", "_", "a", "b">>

\* File stems are never empty.
Stems ==
    (StringsUpTo(StemChars, MaxStemLen) \ {<<>>})
    \cup {Stem_2019_state_tournament_a, Stem_state_tournament, Stem_overflow, Stem_plus}

InitStem ==
    /\ stem \in Stems
    /\ stem_out = NoneOpt
    /\ IdleMain /\ IdleGit /\ IdleTheme /\ IdleCall

ParseStem ==
    /\ stem_out = NoneOpt
    /\ stem_out' = Some(ParseLogoStem(stem))
    /\ UNCHANGED <<stem, inputVars, mainVars, themeVars, callVars>>

NextStem == ParseStem

SpecStem == InitStem /\ [][NextStem]_vars

---------------------------------------------------------------------------
(* The theme color loop on its own                                         *)

\* The averaged pixel: each channel from an even grid over 0..255 together
\* with the values next to white.
GridN == 4

NearWhite == 3

\* The loop counter is cut off here.
StepCap == 120

PixelLevels ==
    {(255 * i) \div GridN : i \in 0..GridN} \cup {255 - j : j \in 0..NearWhite}

InitTheme ==
    /\ \E r \in PixelLevels, g \in PixelLevels, b \in PixelLevels : color = Rgb(r, g, b)
    /\ steps = 0
    /\ theme_out = NoneOpt
    /\ IdleMain /\ IdleGit /\ IdleStem /\ IdleCall

\* The loop condition holds: one pass through the body.
DarkenStep ==
    /\ theme_out = NoneOpt
    /\ LoopTest(color)
    /\ steps < StepCap
    /\ color' = LoopBody(color)
    /\ steps' = steps + 1
    /\ UNCHANGED <<theme_out, inputVars, mainVars, stemVars, callVars>>

\* The loop condition fails: color.to_css() is returned.
ReturnTheme ==
    /\ theme_out = NoneOpt
    /\ ~LoopTest(color)
    /\ theme_out' = Some(ToCss(color))
    /\ UNCHANGED <<color, steps, inputVars, mainVars, stemVars, callVars>>

NextTheme == DarkenStep \/ ReturnTheme

SpecTheme == InitTheme /\ [][NextTheme]_vars

---------------------------------------------------------------------------
(* The resolver on its own                                                 *)

MaxNameLen == 6

NameChars == {"1", "-", "_", "a", "."}

SmallLogo_a_a == <<"a", "_", "a", ".", "p", "n", "g">>
SmallLogo_2_a_a == <<"2", "_", "a", "_", "a", ".", "p", "n", "g">>
SmallLogo_a == <<"a", ".", "p", "n", "g">>
SmallLogo_11 == <<"1", "1", ".", "p", "n", "g">>
SmallLogo_1_aa == <<"1", "_", "a", "a", ".", "p", "n", "g">>
SmallLogo_aa_a == <<"a", "a", "_", "a", ".", "p", "n", "g">>

\* Logo directories in enumeration order, with names over the same few
\* characters as the result file names.
ResolveDirs ==
    {<<>>,
     <<SmallLogo_a_a, SmallLogo_2_a_a>>,
     <<SmallLogo_a, SmallLogo_11>>,
     <<SmallLogo_1_aa, SmallLogo_aa_a>>,
     <<Logo_2019_t_b_png, Logo_t_png, Logo_2021_t_b_png>>,
     <<Logo_2020_regional_x_b_png, Logo_default_png>>}

Range(v) == {v[i] : i \in 1..Len(v)}

ResolveCatalogs ==
    {GetLogoInfo(d, [f \in Range(d) |-> PixelOf(f)]).info : d \in ResolveDirs}

Txt_year == {<<"2", "0", "2", "1">>, <<"1">>, <<"0">>, <<"+", "1">>}
Txt_qualifier == {<<>>, <<"0", "4", "-", "0", "1">>}
Txt_tournament == {<<"t">>, <<"a">>, <<"a", "a">>, <<>>}
Txt_division == {<<"a">>, <<"b">>, <<>>}
Txt_ext == {<<"y", "a", "m", "l">>}

\* <year>-<qualifier>_<name>_<division>.<ext>
ShapedNames ==
    {y \o <<"-">> \o q \o <<"_">> \o n \o <<"_">> \o d \o <<".">> \o x :
        y \in Txt_year, q \in Txt_qualifier, n \in Txt_tournament,
        d \in Txt_division, x \in Txt_ext}

ResolveNames ==
    StringsUpTo(NameChars, MaxNameLen) \cup ShapedNames \cup ResultUniverse
    \cup {Result_2019_regional_x_b, Result_2022_default_a}

InitResolve ==
    /\ given_name \in ResolveNames
    /\ logo_info \in ResolveCatalogs
    /\ resolved = NoneOpt
    /\ date_added = NoneOpt
    /\ logo_dir = {}
    /\ results_dir = {}
    /\ images = EmptyMap
    /\ pc = "done"
    /\ panicked = FALSE
    /\ logo_entries = {}
    /\ result_entries = {}
    /\ tournaments = <<>>
    /\ next_page = 1
    /\ written = <<>>
    /\ IdleGit /\ IdleStem /\ IdleTheme

Resolve ==
    /\ resolved = NoneOpt
    /\ resolved' = Some(GetLogoPathAndColor(given_name, logo_info))
    /\ UNCHANGED <<given_name, date_added, inputVars, mainVars, stemVars, themeVars>>

NextResolve == Resolve

SpecResolve == InitResolve /\ [][NextResolve]_vars

---------------------------------------------------------------------------
(* The history date resolver on its own                                    *)

DateNames == {Result_2022_t_b}

InitDate ==
    /\ given_name \in DateNames
    /\ \E hr \in Histories, hd \in Histories :
       \E broken \in {{}, {ResultsPath(given_name)}, {DataPath(given_name)}} :
          git = UniformGit({given_name}, hr, hd, broken)
    /\ NOW \in NowTimes
    /\ resolved = NoneOpt
    /\ date_added = NoneOpt
    /\ IdleMain /\ IdleStem /\ IdleTheme

GetDate ==
    /\ date_added = NoneOpt
    /\ date_added' = Some(GetDateAdded(git, NOW, given_name))
    /\ UNCHANGED <<given_name, resolved, inputVars, mainVars, stemVars, themeVars>>

NextDate == GetDate

SpecDate == InitDate /\ [][NextDate]_vars

---------------------------------------------------------------------------
(* Properties                                                              *)

Count(v, c) == Cardinality({i \in 1..Len(v) : v[i] = c})

DefaultPair == <<default_logo_path, default_theme_color>>

\* The (logo path, theme color) of a catalog entry or of a resolver result.
PairOf(x) == <<x.path, x.theme_color>>

Ingested == {tournaments[i] : i \in 1..Len(tournaments)}

RecordPair(t) == <<t.logo_path, t.theme_color>>

\* Indices of the candidates v whose division satisfies dv and whose
\* minimum_year is at most year, and among a set of indices those of the
\* greatest minimum_year.
WithDivision(v, dv, year) ==
    {i \in 1..Len(v) : v[i].division = dv /\ v[i].minimum_year <= year}

Newest(v, idx) ==
    {i \in idx : \A j \in idx : v[j].minimum_year <= v[i].minimum_year}

\* C1: for every candidate list built by get_logo_info and every result file
\* ingested against it, the logo found by the first-match scan is a
\* candidate of the file's own division with the greatest minimum_year not
\* above the file's year if there is one, else a division-less candidate
\* with the greatest such minimum_year if there is one, else nothing
\* matches and the default is returned.
C1_FirstMatchIsMostSpecific ==
    \A t \in Ingested :
        LET id == ParseResultName(t.source_file_name) IN
        id.tournament_name \in DOMAIN logo_info =>
            LET v    == logo_info[id.tournament_name]
                own  == WithDivision(v, Some(id.division), id.year)
                free == WithDivision(v, NoneOpt, id.year)
            IN  IF own # {}
                THEN \E i \in Newest(v, own) : RecordPair(t) = PairOf(v[i])
                ELSE IF free # {}
                THEN \E i \in Newest(v, free) : RecordPair(t) = PairOf(v[i])
                ELSE RecordPair(t) = DefaultPair

\* A 2022 division-b file resolved to the 2019 division-b logo although a
\* newer division-less logo was in the list as well.
C1_Witness ==
    /\ logo_dir = {Logo_2019_t_b_png, Logo_2021_t_png}
    /\ \E t \in Ingested :
          /\ t.source_file_name = Result_2022_t_b
          /\ t.logo_path = Logo_2019_t_b_png

\* C2: with exactly 2020_regional_x.png and 2020_regional_x_b.png in the
\* logo directory, 2021-04-01_regional_x_b.yaml resolves to
\* 2020_regional_x_b.png and 2021-04-01_regional_x_c.yaml resolves to
\* 2020_regional_x.png.
C2_Scenario ==
    logo_dir = {Logo_2020_regional_x_png, Logo_2020_regional_x_b_png} =>
        \A t \in Ingested :
            /\ t.source_file_name = Result_2021_regional_x_b
                  => t.logo_path = Logo_2020_regional_x_b_png
            /\ t.source_file_name = Result_2021_regional_x_c
                  => t.logo_path = Logo_2020_regional_x_png

\* C3: the resolver returns the default logo and "#303030" exactly when the
\* file's tournament has no catalog entry or none of its candidates has
\* (no division or the file's division) and a minimum_year not above the
\* file's year, as for a 2019 file against a single 2020 candidate; in
\* every other case it returns the path and color of one candidate of that
\* tournament.
C3_DefaultIffNoCandidate ==
    resolved # NoneOpt /\ ~resolved[1].panic =>
        LET id   == ParseResultName(given_name)
            v    == IF id.tournament_name \in DOMAIN logo_info
                    THEN logo_info[id.tournament_name] ELSE <<>>
            fits == {i \in 1..Len(v) :
                        /\ v[i].division \in {NoneOpt, Some(id.division)}
                        /\ v[i].minimum_year <= id.year}
        IN  /\ (PairOf(resolved[1]) = DefaultPair) <=> (fits = {})
            /\ fits # {} => \E i \in fits : PairOf(resolved[1]) = PairOf(v[i])
            /\ (given_name = Result_2019_regional_x_b
                 /\ Len(v) = 1 /\ v[1].minimum_year = 2020)
                  => PairOf(resolved[1]) = DefaultPair

\* The 2019 file met a catalog whose only candidate for its tournament has
\* minimum_year 2020, and got the default.
C3_Witness ==
    /\ given_name = Result_2019_regional_x_b
    /\ ParseResultName(given_name).tournament_name \in DOMAIN logo_info
    /\ resolved = Some([panic |-> FALSE, path |-> default_logo_path,
                        theme_color |-> default_theme_color])

\* The stem as the grammar reads it: segments between underscores, a leading
\* non-zero year, a trailing one-character division.
GrammarOfStem(s) ==
    LET segs  == Split(s, "_")
        n     == Len(segs)
        first == ParseU32(segs[1])
        year  == IF first.ok /\ first.val # 0 THEN first.val ELSE 0
        from  == IF year # 0 THEN 1 ELSE 0
        hasd  == Len(segs[n]) = 1
        upto  == IF hasd THEN n - 1 ELSE n
    IN  [minimum_year    |-> year,
         division        |-> IF hasd THEN Some(segs[n]) ELSE NoneOpt,
         tournament_name |-> Join([i \in 1..(IF upto > from THEN upto - from ELSE 0)
                                      |-> segs[from + i]], <<"_">>)]

\* C4: for every non-empty logo file stem, stems of one segment included,
\* the parsing completes without aborting and yields the minimum_year,
\* division and tournament_name of the grammar.
C4_StemParseTotal ==
    stem_out # NoneOpt =>
        /\ ~stem_out[1].panic
        /\ stem_out[1].minimum_year = GrammarOfStem(stem).minimum_year
        /\ stem_out[1].division = GrammarOfStem(stem).division
        /\ stem_out[1].tournament_name = GrammarOfStem(stem).tournament_name

\* The color a "rgb(r, g, b)" text denotes.
RECURSIVE TrimLeft(_)
TrimLeft(s) == IF s # <<>> /\ Head(s) = " " THEN TrimLeft(Tail(s)) ELSE s

ColorOfCss(text) ==
    LET parts == Split(SubSeq(text, 5, Len(text) - 1), ",")
    IN  Rgb(ParseU32(TrimLeft(parts[1])).val,
            ParseU32(TrimLeft(parts[2])).val,
            ParseU32(TrimLeft(parts[3])).val)

\* C5: every theme color get_theme_color returns has a contrast ratio of at
\* least 7.0 against white, whatever the averaged pixel was.
C5_ReturnedContrast ==
    theme_out # NoneOpt => ContrastMilli(ColorOfCss(theme_out[1])) >= 7000

\* A color was returned after the loop had darkened the pixel.
C5_Witness ==
    theme_out # NoneOpt /\ steps >= 50

\* C6: from every starting pixel the darkening loop ends, and the body runs
\* at most 100 times: whenever the loop condition still holds, fewer than
\* 100 passes have been made.
C6_AtMost100Steps ==
    /\ steps <= 100
    /\ (theme_out = NoneOpt /\ LoopTest(color)) => steps < 100

\* The loop ended after its longest run.
C6_Witness ==
    theme_out # NoneOpt /\ steps = 70

\* The text before the first '-' (all of it if there is none).
RECURSIVE UpToDash(_)
UpToDash(s) ==
    IF s = <<>> \/ Head(s) = "-" THEN <<>> ELSE <<Head(s)>> \o UpToDash(Tail(s))

\* Decimal text of an unsigned 32-bit integer, as u32 parsing accepts it.
IsUnsignedText(s) ==
    LET b == IF s # <<>> /\ Head(s) = "+" THEN Tail(s) ELSE s
        z == StripZeros(b)
    IN  /\ b # <<>>
        /\ \A i \in 1..Len(b) : IsDigit(b[i])
        /\ \/ Len(z) < 10
           \/ Len(z) = 10 /\ CmpStr(z, U32MaxText) <= 0

MalformedResultName(s) ==
    ~IsUnsignedText(UpToDash(s)) \/ Count(s, "_") < 2

\* C7: a result file name whose text before the first '-' is no unsigned
\* integer, or which has no '_' or no second '_', ends
\* get_logo_path_and_color in an error with no (logo, color) returned and
\* no lookup made; every other name, and so every name of the form
\* <year>-<qualifier>_<name>_<division>.<ext>, gets a pair without error.
C7_NeverSilentlyDefaults ==
    resolved # NoneOpt =>
        /\ resolved[1].panic <=> MalformedResultName(given_name)
        /\ resolved[1].panic => PairOf(resolved[1]) = <<<<>>, <<>>>>
        /\ ~resolved[1].panic => resolved[1].path # <<>>
        /\ given_name \in ShapedNames => ~resolved[1].panic

\* A name with a year and a single '_' ended in the error.
C7_Witness ==
    /\ given_name = <<"1", "-", "_", "a">>
    /\ resolved # NoneOpt
    /\ resolved[1].panic

\* C8: get_date_added asks git at most twice, results/<name> and then
\* data/<name> only when the first date is before 2020-07-08; it returns
\* the current time only when neither path has any history, and whenever a
\* lookup found a commit date the returned date is a commit date.
C8_FallbackOnlyWithoutHistory ==
    date_added # NoneOpt /\ ~date_added[1].err =>
        LET r        == date_added[1]
            p1       == ResultsPath(given_name)
            p2       == DataPath(given_name)
            used_now == r.lookups[Len(r.lookups)] \in Range(r.warnings)
        IN  /\ r.lookups \in {<<p1>>, <<p1, p2>>}
            /\ (Len(r.lookups) = 2) <=> (GetDateFromGit(git, NOW, p1).date < cutover)
            /\ used_now => \A i \in 1..Len(r.lookups) : git.log[r.lookups[i]] = <<>>
            /\ (\E i \in 1..Len(r.lookups) : git.log[r.lookups[i]] # <<>>)
                  => ~used_now /\ r.date \in Range(git.log[p1]) \cup Range(git.log[p2])

OutputKinds == {"dir", "page", "events", "schools", "index"}

\* What main writes for the records it holds, in order.
ExpectedOutputs ==
    <<Artifact("dir", <<>>, <<>>)>>
    \o [i \in 1..Len(tournaments) |->
          Artifact("page",
                   FileStem(tournaments[i].source_file_name) \o <<".", "h", "t", "m", "l">>,
                   tournaments[i].theme_color)]
    \o <<Artifact("events", <<>>, <<>>), Artifact("schools", <<>>, <<>>),
         Artifact("index", <<>>, <<>>)>>

CatalogBuilt == pc \notin {"start", "logos"}

\* C9: nothing is written, the output directory included, before the
\* catalog is built and every result file has its record; then the pages
\* are written before the CSVs and the index last; so a run that aborts
\* while building the catalog or ingesting has written nothing.
C9_OutputsAfterIngestion ==
    /\ written # <<>> =>
          /\ CatalogBuilt
          /\ logo_entries = {} /\ result_entries = {}
          /\ {t.source_file_name : t \in Ingested} = results_dir \ ResultSubdirs
    /\ Len(written) <= Len(ExpectedOutputs)
    /\ written = SubSeq(ExpectedOutputs, 1, Len(written))
    /\ (panicked /\ pc \in {"start", "logos", "ingest"}) => written = <<>>
    /\ pc = "done" => written = ExpectedOutputs

\* A run with two result files wrote everything.
C9_Witness ==
    /\ pc = "done"
    /\ Len(tournaments) = 2
    /\ Len(written) = 6

RECURSIVE SomeOrder(_)
SomeOrder(set) ==
    IF set = {} THEN <<>>
    ELSE LET x == CHOOSE y \in set : TRUE IN <<x>> \o SomeOrder(set \ {x})

\* C10: the catalog does not depend on the order in which read_dir yields
\* the logo files: every order gives the candidate lists of one fixed
\* order, and so every result file the logo and color that order gives.
C10_OrderIndependent ==
    CatalogBuilt =>
        LET fixed == GetLogoInfo(SomeOrder(logo_dir), images) IN
        /\ ~fixed.panic
        /\ logo_info = fixed.info
        /\ \A t \in Ingested :
              RecordPair(t) = PairOf(GetLogoPathAndColor(t.source_file_name, fixed.info))

\* Two logos with equal division, year and color, differing in path only,
\* were read and sorted, and a file resolved against them.
C10_Witness ==
    /\ logo_dir = {Logo_2021_t_b_png, Logo_2021_t_b_svg}
    /\ CatalogBuilt
    /\ \E t \in Ingested : t.source_file_name = Result_2022_t_b

=============================================================================
